---- MODULE Spec2Model ----
(***************************************************************************)
(* A model of qt-cargo-base: the configuration-header renderer, the Qt     *)
(* class-name scanner, the forwarding-header writer with its path          *)
(* arithmetic, the QtModuleBuilder setters and QtModuleBuilder::compile.   *)
(*                                                                         *)
(* Text is modelled as a sequence of one-character strings, so that        *)
(* formatting, splitting and substring tests are computed, not assumed.    *)
(***************************************************************************)
EXTENDS Integers, Sequences, FiniteSets, TLC

VARIABLES
    \* --- the renderer under test (make_feature_defines & co.)
    r_features,      \* the (name, enable) list handed to the renderer
    r_defines,       \* the (key, value) list handed to the renderer
    r_kind,          \* which rendering was produced last
    r_text,          \* the text it produced
    \* --- the class-name scanner under test (write_class_forwarding_header)
    header_text,     \* the bytes of the header being scanned
    scan_pc,         \* "ready" before the scan, "scanned" after it
    qt_classes,      \* the class names the scan emitted, in order
    \* --- the file system and one call of write_forwarding_header
    disk,            \* [dirs: set of locations, files: location -> bytes]
    fw_call,         \* the call made: implementation, destination, target
    fw_result,       \* "none" before the call, then "ok" or "panic"
    \* --- the fields of QtModuleBuilder
    module_name,
    qt_source_path,
    module_headers,
    module_sources,
    global_features_,
    global_private_features_,
    global_defines_,
    module_features_,
    module_private_features_,
    module_defines_,
    module_private_defines_,
    qplatformdefs_,  \* Option<PathBuf>
    build_dir_,      \* Option<PathBuf>
    given,           \* per bucket, the list handed to the last call that set it
    \* --- one run of QtModuleBuilder::compile
    pc,              \* the statement compile is at; "done", "panicked" at the end
    hidx,            \* index into module_headers of the forwarding-header loop
    oplog,           \* the file-system calls made so far, in order
    build,           \* what the cc::Build was given: includes, files, compile calls
    run,             \* the number of the run of compile, counted from 1
    first_disk,      \* the file system the previous run of compile left, if any
    \* --- the two forwarding-header tasks of compile, scheduled freely
    tasks,           \* per task: the statement it is at and its loop index
    \* --- one call that forwards a list of headers
    all_call,        \* the function called, its source path and destination path
    all_headers,     \* the headers it goes through, in order
    all_pc,          \* the statement it is at; "done", "panicked" at the end
    all_idx          \* index into all_headers of its loop

renderVars == <<r_features, r_defines, r_kind, r_text>>
scanVars == <<header_text, scan_pc, qt_classes>>
forwardVars == <<fw_call, fw_result>>
bucketVars ==
    <<global_features_, global_private_features_, global_defines_, module_features_,
      module_private_features_, module_defines_, module_private_defines_>>
builderVars ==
    <<module_name, qt_source_path, module_headers, module_sources, bucketVars,
      qplatformdefs_, build_dir_, given>>

rerunVars == <<run, first_disk>>
allVars == <<all_call, all_headers, all_pc, all_idx>>
compileVars == <<pc, hidx, oplog, build, rerunVars, tasks, allVars>>

vars == <<renderVars, scanVars, disk, forwardVars, builderVars, compileVars>>

(***************************************************************************)
(* Bounds                                                                  *)
(***************************************************************************)
MaxEntries == 2      \* longest feature / define list handed to the renderer
MaxTokens == 3       \* longest free token sequence of a scanned header
MaxHeaders == 2      \* longest module header list handed to compile
MaxRuns == 2         \* runs of compile from the same configuration
MaxFiles == 2        \* longest source list and header list a builder collects

(***************************************************************************)
(* Text helpers                                                            *)
(***************************************************************************)
RECURSIVE Concat(_)
\* String::collect() of an iterator of strings: concatenation in order.
Concat(parts) ==
    IF parts = <<>> THEN <<>> ELSE Head(parts) \o Concat(Tail(parts))

\* all sequences over S of length 0..n
SeqsUpTo(S, n) == UNION { [1..k -> S] : k \in 0..n }

\* str::starts_with
starts_with(s, prefix) ==
    /\ Len(prefix) <= Len(s)
    /\ SubSeq(s, 1, Len(prefix)) = prefix

\* str::contains (substring test)
contains(s, pat) ==
    \E i \in 1..(Len(s) - Len(pat) + 1) : SubSeq(s, i, i + Len(pat) - 1) = pat

(***************************************************************************)
(* Literals of the format strings                                          *)
(***************************************************************************)
STR_define == <<"#", "d", "e", "f", "i", "n", "e", " ">>
STR_QT_FEATURE == <<"Q", "T", "_", "F", "E", "A", "T", "U", "R", "E", "_">>

(***************************************************************************)
(* Config header renderer                                                  *)
(***************************************************************************)
\* a renderer that writes a disabled feature as 0
feature_value_zero(enable) == IF enable THEN <<"1">> ELSE <<"0">>

\* the `match enable { true => "1", false => "-1" }` of make_feature_defines
feature_value(enable) == IF enable THEN <<"1">> ELSE <<"-", "1">>

\* format!("#define QT_FEATURE_{} {}\n", name, value)
feature_line(name, enable) ==
    STR_define \o STR_QT_FEATURE \o name \o <<" ">> \o feature_value(enable) \o <<"\n">>

\* format!("#define {} {}\n", key, value)
define_line(key, value) ==
    STR_define \o key \o <<" ">> \o value \o <<"\n">>

make_feature_defines(features) ==
    Concat([i \in 1..Len(features) |-> feature_line(features[i][1], features[i][2])])

make_define_string(defines) ==
    Concat([i \in 1..Len(defines) |-> define_line(defines[i][1], defines[i][2])])

\* format!("{}\n{}", a, b)
format_two_blocks(a, b) == a \o <<"\n">> \o b

\* lib.rs create_config_headears: qconfig.h
qconfig_content(features, defines) ==
    format_two_blocks(make_feature_defines(features), make_define_string(defines))

\* lib.rs create_config_headears: private/qconfig_p.h (features only)
qconfig_private_content(features) == make_feature_defines(features)

\* lib.rs create_config_headears: qt<module>-config.h
module_config_content(features, defines) ==
    format_two_blocks(make_feature_defines(features), make_define_string(defines))

\* lib.rs create_config_headears: private/qt<module>-config_p.h
module_private_config_content(features, defines) ==
    format_two_blocks(make_feature_defines(features), make_define_string(defines))

\* configure.rs write_config_header: the content handed to fs::write
write_config_header_content(defines, features) ==
    format_two_blocks(make_define_string(defines), make_feature_defines(features))

(***************************************************************************)
(* Qt class-name scanner                                                   *)
(***************************************************************************)
\* the characters str::split_whitespace splits on (those the model uses)
Whitespace == {" ", "\n", "\t"}

RECURSIVE split_from(_, _, _)
\* tokens of text[i..], cur being the token read so far
split_from(text, i, cur) ==
    IF i > Len(text)
    THEN IF cur = <<>> THEN <<>> ELSE <<cur>>
    ELSE IF text[i] \in Whitespace
         THEN (IF cur = <<>> THEN <<>> ELSE <<cur>>) \o split_from(text, i + 1, <<>>)
         ELSE split_from(text, i + 1, Append(cur, text[i]))

\* str::split_whitespace: the maximal runs of non-whitespace, in order
split_whitespace(text) == split_from(text, 1, <<>>)

STR_class == <<"c", "l", "a", "s", "s">>

\* a detector that forgets to reject the underscore
is_qt_class_no_underscore(token) ==
    /\ starts_with(token, <<"Q">>)
    /\ ~contains(token, <<";">>)
    /\ ~contains(token, <<":">>)
    /\ ~contains(token, <<"#">>)
    /\ ~contains(token, <<"<">>)
    /\ ~contains(token, <<">">>)

\* a detector that takes a name whatever its first letter
is_qt_class_no_sentinel(token) ==
    /\ ~contains(token, <<";">>)
    /\ ~contains(token, <<":">>)
    /\ ~contains(token, <<"#">>)
    /\ ~contains(token, <<"_">>)
    /\ ~contains(token, <<"<">>)
    /\ ~contains(token, <<">">>)

\* "Behold, the Qt class name detector"
is_qt_class(token) ==
    /\ starts_with(token, <<"Q">>)
    /\ ~contains(token, <<";">>)
    /\ ~contains(token, <<":">>)
    /\ ~contains(token, <<"#">>)
    /\ ~contains(token, <<"_">>)
    /\ ~contains(token, <<"<">>)
    /\ ~contains(token, <<">">>)

\* a window filter that looks at the token after "class" only
class_window_next_only(elem, next, next_next) ==
    IF elem = STR_class /\ is_qt_class(next) THEN <<next>> ELSE <<>>

\* the filter_map closure: what one (elem, next, next_next) window emits
class_window(elem, next, next_next) ==
    IF elem = STR_class
    THEN IF is_qt_class(next) THEN <<next>>
         ELSE IF is_qt_class(next_next) THEN <<next_next>>
         ELSE <<>>
    ELSE <<>>

\* tokens.tuple_windows::<(_, _, _)>().filter_map(..): the emitted names in order
scan_qt_classes(text) ==
    LET tokens == split_whitespace(text)
    IN  Concat([i \in 1..(Len(tokens) - 2) |->
                   class_window(tokens[i], tokens[i + 1], tokens[i + 2])])

(***************************************************************************)
(* Names                                                                   *)
(***************************************************************************)
N_w == <<"w">>
N_src == <<"s", "r", "c">>
N_out == <<"o", "u", "t">>
N_lnk == <<"l", "n", "k">>
N_qt == <<"q", "t">>
N_qtbase == <<"q", "t", "b", "a", "s", "e">>
N_mkspecs == <<"m", "k", "s", "p", "e", "c", "s">>
N_linux_clang == <<"l", "i", "n", "u", "x", "-", "c", "l", "a", "n", "g">>
N_qplatformdefs_h == <<"q", "p", "l", "a", "t", "f", "o", "r", "m", "d", "e", "f", "s", ".", "h">>
N_config_headers == <<"c", "o", "n", "f", "i", "g", "_", "h", "e", "a", "d", "e", "r", "s">>
N_forwarding_headers == <<"f", "o", "r", "w", "a", "r", "d", "i", "n", "g", "_", "h", "e", "a", "d", "e", "r", "s">>
N_private == <<"p", "r", "i", "v", "a", "t", "e">>
N_qconfig_h == <<"q", "c", "o", "n", "f", "i", "g", ".", "h">>
N_qconfig_p_h == <<"q", "c", "o", "n", "f", "i", "g", "_", "p", ".", "h">>
STR_config_h == <<"-", "c", "o", "n", "f", "i", "g", ".", "h">>
STR_config_p_h == <<"-", "c", "o", "n", "f", "i", "g", "_", "p", ".", "h">>
N_QtCore == <<"Q", "t", "C", "o", "r", "e">>
N_qobject_h == <<"q", "o", "b", "j", "e", "c", "t", ".", "h">>
N_qobject_p_h == <<"q", "o", "b", "j", "e", "c", "t", "_", "p", ".", "h">>
N_qglobal_cpp == <<"q", "g", "l", "o", "b", "a", "l", ".", "c", "p", "p">>
N_gone_h == <<"g", "o", "n", "e", ".", "h">>
STR_p_h == <<"_", "p", ".", "h">>
STR_include == <<"#", "i", "n", "c", "l", "u", "d", "e", " ", "\"">>
STR_include_end == <<"\"", "\n">>
UpperCase == <<"A", "B", "C", "D", "E", "F", "G", "H", "I", "J", "K", "L", "M", "N", "O", "P", "Q", "R", "S", "T", "U", "V", "W", "X", "Y", "Z">>
LowerCase == <<"a", "b", "c", "d", "e", "f", "g", "h", "i", "j", "k", "l", "m", "n", "o", "p", "q", "r", "s", "t", "u", "v", "w", "x", "y", "z">>

\* char::to_lowercase on the ASCII letters
lower_char(c) ==
    IF \E i \in 1..Len(UpperCase) : UpperCase[i] = c
    THEN LowerCase[CHOOSE i \in 1..Len(UpperCase) : UpperCase[i] = c]
    ELSE c

\* str::to_lowercase
to_lowercase(s) == [i \in 1..Len(s) |-> lower_char(s[i])]

(***************************************************************************)
(* Paths (std::path): a root flag and the components                       *)
(***************************************************************************)
None == <<>>
Some(x) == <<x>>

CUR == <<".">>
PARENT == <<".", ".">>

AbsPath(comps) == [abs |-> TRUE, comps |-> comps]
RelPath(comps) == [abs |-> FALSE, comps |-> comps]

\* Path::components drops every "." but a leading one of a relative path
normal_components(abs, comps) ==
    LET keep == { i \in 1..Len(comps) : comps[i] # CUR \/ (i = 1 /\ ~abs) }
        nth(k) == CHOOSE i \in keep : Cardinality({ j \in keep : j < i }) = k - 1
    IN  [k \in 1..Cardinality(keep) |-> comps[nth(k)]]

\* Path::join: an absolute argument replaces the base
join(base, path) ==
    IF path.abs THEN path
    ELSE [abs |-> base.abs,
          comps |-> normal_components(base.abs, base.comps \o path.comps)]

\* Path::join with a single file or directory name
join_name(base, name) == join(base, RelPath(<<name>>))

\* Path::is_relative
is_relative(path) == ~path.abs

\* Path::file_name: None when the path ends in ".." or has no component
file_name(path) ==
    IF path.comps = <<>> THEN None
    ELSE LET last == path.comps[Len(path.comps)]
         IN  IF last \in {CUR, PARENT} THEN None ELSE Some(last)

\* Path::parent
parent(path) ==
    IF path.comps = <<>> THEN None
    ELSE Some([abs |-> path.abs, comps |-> SubSeq(path.comps, 1, Len(path.comps) - 1)])

RECURSIVE join_components(_)
join_components(comps) ==
    IF comps = <<>> THEN <<>>
    ELSE IF Len(comps) = 1 THEN comps[1]
    ELSE comps[1] \o <<"/">> \o join_components(Tail(comps))

\* Path::to_str
to_str(path) == (IF path.abs THEN <<"/">> ELSE <<>>) \o join_components(path.comps)

RECURSIVE diff_loop(_, _, _)
\* the loop of pathdiff::diff_paths over the two component iterators
diff_loop(ita, itb, comps) ==
    IF ita = <<>> /\ itb = <<>> THEN Some(comps)
    ELSE IF itb = <<>> THEN Some(comps \o ita)
    ELSE IF ita = <<>> THEN diff_loop(<<>>, Tail(itb), Append(comps, PARENT))
    ELSE IF comps = <<>> /\ Head(ita) = Head(itb) THEN diff_loop(Tail(ita), Tail(itb), comps)
    ELSE IF Head(itb) = CUR THEN diff_loop(Tail(ita), Tail(itb), Append(comps, Head(ita)))
    ELSE IF Head(itb) = PARENT THEN None
    ELSE Some(comps \o [i \in 1..Len(itb) |-> PARENT] \o ita)

\* pathdiff::diff_paths(path, base)
diff_paths(path, base) ==
    IF path.abs # base.abs
    THEN IF path.abs THEN Some(path) ELSE None
    ELSE LET d == diff_loop(path.comps, base.comps, <<>>)
         IN  IF d = None THEN None ELSE Some(RelPath(d[1]))

(***************************************************************************)
(* File system: the directories, the files with their bytes, one symlink   *)
(* A location is the sequence of names from the root, symlinks resolved.   *)
(***************************************************************************)
Root == <<>>
CurrentDir == <<N_w>>                      \* std::env::current_dir()
SymlinkAt == <<N_lnk>>                     \* /lnk -> /w/out
SymlinkTarget == <<N_w, N_out>>

ParentOf(loc) == IF loc = Root THEN Root ELSE SubSeq(loc, 1, Len(loc) - 1)

IsDir(fs, loc) == loc \in fs.dirs
IsFile(fs, loc) == loc \in DOMAIN fs.files

RECURSIVE walk(_, _, _)
\* the location the components lead to from the directory cur, or None
walk(fs, cur, comps) ==
    IF comps = <<>> THEN (IF IsDir(fs, cur) \/ IsFile(fs, cur) THEN Some(cur) ELSE None)
    ELSE IF ~IsDir(fs, cur) THEN None
    ELSE IF Head(comps) = CUR THEN walk(fs, cur, Tail(comps))
    ELSE IF Head(comps) = PARENT THEN walk(fs, ParentOf(cur), Tail(comps))
    ELSE IF Append(cur, Head(comps)) = SymlinkAt THEN walk(fs, SymlinkTarget, Tail(comps))
    ELSE walk(fs, Append(cur, Head(comps)), Tail(comps))

\* the directory a path is resolved from
start_of(path) == IF path.abs THEN Root ELSE CurrentDir

\* the location a path names, or None when it names nothing
resolve(fs, path) == walk(fs, start_of(path), path.comps)

\* Path::canonicalize: the absolute, symlink-free path of an existing file
canonicalize(fs, path) ==
    LET loc == resolve(fs, path)
    IN  IF loc = None THEN None ELSE Some(AbsPath(loc[1]))

RECURSIVE mkdir_from(_, _, _)
\* the directories after creating every missing one along comps, or None
mkdir_from(fs, cur, comps) ==
    IF comps = <<>> THEN Some(fs.dirs)
    ELSE IF Head(comps) = CUR THEN mkdir_from(fs, cur, Tail(comps))
    ELSE IF Head(comps) = PARENT THEN mkdir_from(fs, ParentOf(cur), Tail(comps))
    ELSE LET child == IF Append(cur, Head(comps)) = SymlinkAt
                      THEN SymlinkTarget ELSE Append(cur, Head(comps))
         IN  IF IsFile(fs, child) THEN None
             ELSE mkdir_from([fs EXCEPT !.dirs = @ \cup {child}], child, Tail(comps))

\* std::fs::create_dir_all: the file system afterwards, or None on an error
create_dir_all(fs, path) ==
    LET d == mkdir_from(fs, start_of(path), path.comps)
    IN  IF d = None THEN None ELSE Some([fs EXCEPT !.dirs = d[1]])

\* a write that leaves a file that exists as it is
fs_write_keep_existing(fs, path, content) ==
    LET dir == IF path.comps = <<>> THEN None
               ELSE walk(fs, start_of(path), SubSeq(path.comps, 1, Len(path.comps) - 1))
        name == path.comps[Len(path.comps)]
    IN  IF dir = None \/ name \in {CUR, PARENT} THEN None
        ELSE IF ~IsDir(fs, dir[1]) \/ IsDir(fs, Append(dir[1], name)) THEN None
        ELSE Some([fs EXCEPT !.files =
                       [f \in DOMAIN @ \cup {Append(dir[1], name)} |->
                           IF f \in DOMAIN @ THEN @[f] ELSE content]])

\* a write that appends to the file it finds
fs_write_append(fs, path, content) ==
    LET dir == IF path.comps = <<>> THEN None
               ELSE walk(fs, start_of(path), SubSeq(path.comps, 1, Len(path.comps) - 1))
        name == path.comps[Len(path.comps)]
    IN  IF dir = None \/ name \in {CUR, PARENT} THEN None
        ELSE IF ~IsDir(fs, dir[1]) \/ IsDir(fs, Append(dir[1], name)) THEN None
        ELSE Some([fs EXCEPT !.files =
                       [f \in DOMAIN @ \cup {Append(dir[1], name)} |->
                           IF f # Append(dir[1], name) THEN @[f]
                           ELSE IF f \in DOMAIN @ THEN @[f] \o content
                           ELSE content]])

\* std::fs::write: whole-file replacement; None when the directory is missing
\* or the name is taken by a directory
fs_write(fs, path, content) ==
    LET dir == IF path.comps = <<>> THEN None
               ELSE walk(fs, start_of(path), SubSeq(path.comps, 1, Len(path.comps) - 1))
        name == path.comps[Len(path.comps)]
    IN  IF dir = None \/ name \in {CUR, PARENT} THEN None
        ELSE IF ~IsDir(fs, dir[1]) \/ IsDir(fs, Append(dir[1], name)) THEN None
        ELSE Some([fs EXCEPT !.files =
                       [f \in DOMAIN @ \cup {Append(dir[1], name)} |->
                           IF f = Append(dir[1], name) THEN content ELSE @[f]]])

(***************************************************************************)
(* Forwarding headers                                                      *)
(***************************************************************************)
\* an include statement without its newline
include_statement_unterminated(path) == STR_include \o to_str(path) \o <<"\"">>

\* format!("#include \"{}\"\n", target_header_path.to_str().unwrap())
include_statement(path) == STR_include \o to_str(path) \o STR_include_end

\* the `match target_header_path.is_relative()` of write_forwarding_header
absolute_target(target_header_path) ==
    IF is_relative(target_header_path)
    THEN target_header_path
    ELSE join(AbsPath(CurrentDir), target_header_path)

\* a visibility test that finds no header private
is_private_never(header_path) == FALSE

\* configure.rs write_all_forwarding_headers: the `_p.h` test on the file name
is_private(header_path) == contains(file_name(header_path)[1], STR_p_h)

\* configure.rs write_forwarding_header_2: the file system afterwards, or None
\* when an unwrap / expect panics
write_forwarding_header_2(fs, forwarding_header_path, target_header_path) ==
    LET canonical == canonicalize(fs, absolute_target(target_header_path))
        dir == parent(forwarding_header_path)
    IN  IF canonical = None \/ dir = None THEN None
        ELSE LET diff == diff_paths(canonical[1], dir[1])
             IN  IF diff = None THEN None
                 ELSE fs_write(fs, forwarding_header_path, include_statement(diff[1]))

\* configure.rs write_forwarding_header
cfg_write_forwarding_header(fs, destination_path, target_header_path) ==
    LET name == file_name(target_header_path)
    IN  IF name = None THEN Some(fs)
        ELSE write_forwarding_header_2(fs, join_name(destination_path, name[1]),
                                       target_header_path)

\* a writer that passes over a target it cannot canonicalize
write_forwarding_header_skip_missing(fs, destination_path, target_header_path) ==
    LET name == file_name(target_header_path)
        canonical == canonicalize(fs, absolute_target(target_header_path))
    IN  IF name = None \/ canonical = None THEN Some(fs)
        ELSE LET diff == diff_paths(canonical[1], destination_path)
             IN  IF diff = None THEN None
                 ELSE fs_write(fs, join_name(destination_path, name[1]),
                               include_statement(diff[1]))

\* lib.rs QtModuleBuilder::write_forwarding_header: the file system afterwards,
\* or None when an unwrap / expect panics
write_forwarding_header(fs, destination_path, target_header_path) ==
    LET name == file_name(target_header_path)
    IN  IF name = None THEN Some(fs)
        ELSE LET forwarding_header_path == join_name(destination_path, name[1])
                 canonical == canonicalize(fs, absolute_target(target_header_path))
             IN  IF canonical = None THEN None
                 ELSE LET diff == diff_paths(canonical[1], destination_path)
                      IN  IF diff = None THEN None
                          ELSE fs_write(fs, forwarding_header_path,
                                        include_statement(diff[1]))

(***************************************************************************)
(* QtModuleBuilder: construction and the feature / define setters          *)
(***************************************************************************)
\* stand-ins for the lists of features.rs
features_global_defines == << <<<<"Q", "T", "_", "V", "E", "R", "S", "I", "O", "N", "_", "M", "A", "J", "O", "R">>, <<"6">>>> >>
features_global_features == << <<<<"s", "h", "a", "r", "e", "d">>, TRUE>>, <<<<"c", "r", "o", "s", "s", "_", "c", "o", "m", "p", "i", "l", "e">>, FALSE>> >>
features_global_private_features == << <<<<"p", "o", "s", "i", "x", "_", "f", "a", "l", "l", "o", "c", "a", "t", "e">>, TRUE>> >>
features_qt_core_defines == << <<<<"Q", "T", "_", "N", "O", "_", "V", "E", "R", "S", "I", "O", "N", "_", "T", "A", "G", "G", "I", "N", "G">>, <<"1">>>> >>
features_qt_core_features == << <<<<"t", "h", "r", "e", "a", "d">>, TRUE>> >>
features_qt_core_private_features == << <<<<"g", "l", "i", "b">>, FALSE>> >>

\* the path configure_for_linux_target appends to the Qt source path
LinuxQPlatformdefs == RelPath(<<N_qtbase, N_mkspecs, N_linux_clang, N_qplatformdefs_h>>)

\* a setter that extends the bucket without clearing it first
extend_only(bucket, items) == bucket \o items

\* bucket.clear(); bucket.extend(items): the bucket afterwards
clear_extend(bucket, items) == <<>> \o items

BucketNames ==
    {"global_features", "global_private_features", "global_defines", "module_features",
     "module_private_features", "module_defines", "module_private_defines"}

\* the lists every bucket holds right after QtModuleBuilder::new()
NewBuckets ==
    [b \in BucketNames |->
        IF b = "global_defines" THEN clear_extend(<<>>, features_global_defines)
        ELSE IF b = "global_features" THEN clear_extend(<<>>, features_global_features)
        ELSE IF b = "global_private_features"
             THEN clear_extend(<<>>, features_global_private_features)
        ELSE <<>>]

\* QtModuleBuilder::new()
new ==
    /\ module_name = <<>>
    /\ qt_source_path = RelPath(<<CUR>>)
    /\ module_headers = <<>>
    /\ module_sources = <<>>
    /\ global_defines_ = NewBuckets["global_defines"]
    /\ global_features_ = NewBuckets["global_features"]
    /\ global_private_features_ = NewBuckets["global_private_features"]
    /\ module_features_ = <<>>
    /\ module_private_features_ = <<>>
    /\ module_defines_ = <<>>
    /\ module_private_defines_ = <<>>
    /\ qplatformdefs_ = None
    /\ build_dir_ = None
    /\ given = NewBuckets

OtherBuilderFields == <<module_name, qt_source_path, module_headers, module_sources, build_dir_>>

\* a setter that fills the private bucket along with its own
global_features_and_private(features) ==
    /\ global_features_' = clear_extend(global_features_, features)
    /\ global_private_features_' = clear_extend(global_private_features_, features)
    /\ given' = [given EXCEPT !["global_features"] = features]
    /\ UNCHANGED <<global_defines_, module_features_,
                   module_private_features_, module_defines_, module_private_defines_>>
    /\ UNCHANGED <<OtherBuilderFields, qplatformdefs_>>

global_features(features) ==
    /\ global_features_' = clear_extend(global_features_, features)
    /\ given' = [given EXCEPT !["global_features"] = features]
    /\ UNCHANGED <<global_private_features_, global_defines_, module_features_,
                   module_private_features_, module_defines_, module_private_defines_>>
    /\ UNCHANGED <<OtherBuilderFields, qplatformdefs_>>

global_private_features(features) ==
    /\ global_private_features_' = clear_extend(global_private_features_, features)
    /\ given' = [given EXCEPT !["global_private_features"] = features]
    /\ UNCHANGED <<global_features_, global_defines_, module_features_,
                   module_private_features_, module_defines_, module_private_defines_>>
    /\ UNCHANGED <<OtherBuilderFields, qplatformdefs_>>

module_features(features) ==
    /\ module_features_' = clear_extend(module_features_, features)
    /\ given' = [given EXCEPT !["module_features"] = features]
    /\ UNCHANGED <<global_features_, global_private_features_, global_defines_,
                   module_private_features_, module_defines_, module_private_defines_>>
    /\ UNCHANGED <<OtherBuilderFields, qplatformdefs_>>

module_private_features(features) ==
    /\ module_private_features_' = clear_extend(module_private_features_, features)
    /\ given' = [given EXCEPT !["module_private_features"] = features]
    /\ UNCHANGED <<global_features_, global_private_features_, global_defines_,
                   module_features_, module_defines_, module_private_defines_>>
    /\ UNCHANGED <<OtherBuilderFields, qplatformdefs_>>

global_defines(defines) ==
    /\ global_defines_' = clear_extend(global_defines_, defines)
    /\ given' = [given EXCEPT !["global_defines"] = defines]
    /\ UNCHANGED <<global_features_, global_private_features_, module_features_,
                   module_private_features_, module_defines_, module_private_defines_>>
    /\ UNCHANGED <<OtherBuilderFields, qplatformdefs_>>

module_defines(defines) ==
    /\ module_defines_' = clear_extend(module_defines_, defines)
    /\ given' = [given EXCEPT !["module_defines"] = defines]
    /\ UNCHANGED <<global_features_, global_private_features_, global_defines_,
                   module_features_, module_private_features_, module_private_defines_>>
    /\ UNCHANGED <<OtherBuilderFields, qplatformdefs_>>

\* qplatformdefs, then global_defines, global_features and
\* global_private_features with the lists of features.rs
configure_for_linux_target(qt_source) ==
    /\ qplatformdefs_' = Some(join(qt_source, LinuxQPlatformdefs))
    /\ global_defines_' = clear_extend(global_defines_, features_global_defines)
    /\ global_features_' = clear_extend(global_features_, features_global_features)
    /\ global_private_features_' =
           clear_extend(global_private_features_, features_global_private_features)
    /\ given' = [given EXCEPT !["global_defines"] = features_global_defines,
                              !["global_features"] = features_global_features,
                              !["global_private_features"] =
                                  features_global_private_features]
    /\ UNCHANGED <<module_features_, module_private_features_, module_defines_,
                   module_private_defines_>>
    /\ UNCHANGED OtherBuilderFields

\* module_defines, module_features and module_private_features with the
\* QtCore lists of features.rs
configure_for_qtcore_module ==
    /\ module_defines_' = clear_extend(module_defines_, features_qt_core_defines)
    /\ module_features_' = clear_extend(module_features_, features_qt_core_features)
    /\ module_private_features_' =
           clear_extend(module_private_features_, features_qt_core_private_features)
    /\ given' = [given EXCEPT !["module_defines"] = features_qt_core_defines,
                              !["module_features"] = features_qt_core_features,
                              !["module_private_features"] =
                                  features_qt_core_private_features]
    /\ UNCHANGED <<global_features_, global_private_features_, global_defines_,
                   module_private_defines_>>
    /\ UNCHANGED <<OtherBuilderFields, qplatformdefs_>>

(***************************************************************************)
(* QtModuleBuilder::compile, one file-system call per step                 *)
(***************************************************************************)
\* let build_path = self.build_dir_.as_ref().unwrap().clone()
build_path == build_dir_[1]
config_headers_path == join_name(build_path, N_config_headers)
forwarding_headers_path == join_name(build_path, N_forwarding_headers)

\* create_config_headears: path.join(&self.module_name)
module_path == join_name(config_headers_path, module_name)
module_private_path == join_name(module_path, N_private)
qconfig_path == join_name(module_path, N_qconfig_h)
qconfig_p_path == join_name(module_private_path, N_qconfig_p_h)
module_lowercase_name == to_lowercase(module_name)
module_config_dir == join_name(config_headers_path, module_name)
module_config_path == join_name(module_config_dir, module_lowercase_name \o STR_config_h)
module_private_config_dir == join_name(module_config_dir, N_private)
module_private_config_path ==
    join_name(module_private_config_dir, module_lowercase_name \o STR_config_p_h)

\* create_forwarding_headers / create_private_forwarding_headers: the directory
public_forwarding_path == join_name(forwarding_headers_path, module_name)
private_forwarding_path == join_name(join_name(forwarding_headers_path, module_name), N_private)

\* an unwrap() or expect() whose failure is swallowed: compile goes on to the build
Panic_swallowed ==
    /\ pc' = "cc"
    /\ UNCHANGED <<disk, hidx, oplog, build>>

\* an unwrap() or expect() that fails: compile unwinds, nothing else happens
Panic ==
    /\ pc' = "panicked"
    /\ UNCHANGED <<disk, hidx, oplog, build>>

\* a file-system call that succeeded
Proceed(next, after, op, path) ==
    /\ pc' = next
    /\ disk' = after
    /\ oplog' = Append(oplog, [op |-> op, path |-> path])
    /\ UNCHANGED <<hidx, build>>

\* what a step of one run of compile leaves alone
NotCompileVars ==
    <<renderVars, scanVars, forwardVars, builderVars, rerunVars, tasks, allVars>>

\* std::fs::create_dir_all(path).expect(..)
MkdirStep(at, next, path) ==
    /\ pc = at
    /\ LET r == create_dir_all(disk, path)
       IN  IF r = None THEN Panic ELSE Proceed(next, r[1], "create_dir_all", path)
    /\ UNCHANGED NotCompileVars

\* fs::write(path, content).expect(..)
WriteStep(at, next, path, content) ==
    /\ pc = at
    /\ LET r == fs_write(disk, path, content)
       IN  IF r = None THEN Panic ELSE Proceed(next, r[1], "write", path)
    /\ UNCHANGED NotCompileVars

\* QtModuleBuilder::write_forwarding_header(dest, target) as one step
ForwardStep(next, dest, target) ==
    LET r == write_forwarding_header(disk, dest, target)
    IN  IF r = None THEN Panic
        ELSE IF file_name(target) = None THEN pc' = next /\ UNCHANGED <<disk, hidx, oplog, build>>
        ELSE Proceed(next, r[1], "write", join_name(dest, file_name(target)[1]))

\* compile(): the build directory is unwrapped (lib.rs 500-509)
CompileBegin ==
    /\ pc = "compile"
    /\ IF build_dir_ = None THEN Panic
       ELSE pc' = "create_module_path" /\ UNCHANGED <<disk, hidx, oplog, build>>
    /\ UNCHANGED NotCompileVars

\* create_config_headears (lib.rs 198)
CreateModulePath == MkdirStep("create_module_path", "qplatformdefs", module_path)

\* create_config_headears (lib.rs 201-207)
WriteQPlatformdefs ==
    /\ pc = "qplatformdefs"
    /\ IF qplatformdefs_ = None THEN Panic
       ELSE ForwardStep("qconfig", module_path, qplatformdefs_[1])
    /\ UNCHANGED NotCompileVars

\* create_config_headears (lib.rs 210-215)
WriteQConfig ==
    WriteStep("qconfig", "create_module_private_path", qconfig_path,
              qconfig_content(global_features_, global_defines_))

\* create_config_headears (lib.rs 218-219)
CreateModulePrivatePath ==
    MkdirStep("create_module_private_path", "qconfig_p", module_private_path)

\* create_config_headears (lib.rs 220-225)
WriteQConfigPrivate ==
    WriteStep("qconfig_p", "create_module_config_dir", qconfig_p_path,
              qconfig_private_content(global_private_features_))

\* create_config_headears (lib.rs 235)
CreateModuleConfigDir ==
    MkdirStep("create_module_config_dir", "module_config", module_config_dir)

\* create_config_headears (lib.rs 228-240)
WriteModuleConfig ==
    WriteStep("module_config", "create_module_private_config_dir", module_config_path,
              module_config_content(module_features_, module_defines_))

\* create_config_headears (lib.rs 256)
CreateModulePrivateConfigDir ==
    MkdirStep("create_module_private_config_dir", "module_private_config",
              module_private_config_dir)

\* create_config_headears (lib.rs 243-262)
WriteModulePrivateConfig ==
    WriteStep("module_private_config", "create_forwarding_dir", module_private_config_path,
              module_private_config_content(module_private_features_,
                                            module_private_defines_))

\* create_forwarding_headers -> write_forwarding_headers (lib.rs 306)
CreateForwardingDir ==
    MkdirStep("create_forwarding_dir", "forwarding_headers", public_forwarding_path)

\* one turn of the loop of write_forwarding_headers over module_headers
ForwardingLoop(at, next, dest) ==
    /\ pc = at
    /\ IF hidx > Len(module_headers)
       THEN /\ pc' = next
            /\ hidx' = 1
            /\ UNCHANGED <<disk, oplog, build>>
       ELSE LET r == write_forwarding_header(disk, dest, module_headers[hidx])
            IN  IF r = None THEN Panic
                ELSE /\ pc' = at
                     /\ hidx' = hidx + 1
                     /\ disk' = r[1]
                     /\ oplog' =
                            IF file_name(module_headers[hidx]) = None THEN oplog
                            ELSE Append(oplog,
                                        [op |-> "write",
                                         path |-> join_name(dest,
                                                      file_name(module_headers[hidx])[1])])
                     /\ UNCHANGED build
    /\ UNCHANGED NotCompileVars

\* create_forwarding_headers (lib.rs 307-309, 319-321)
WriteForwardingHeaders ==
    ForwardingLoop("forwarding_headers", "create_private_forwarding_dir",
                   public_forwarding_path)

\* create_private_forwarding_headers -> write_forwarding_headers (lib.rs 306)
CreatePrivateForwardingDir ==
    MkdirStep("create_private_forwarding_dir", "private_forwarding_headers",
              private_forwarding_path)

\* create_private_forwarding_headers (lib.rs 307-309, 329-330)
WritePrivateForwardingHeaders ==
    ForwardingLoop("private_forwarding_headers", "include", private_forwarding_path)

\* the four include calls with the forwarding directories registered first
AddIncludePaths_forwarding_first ==
    /\ pc = "include"
    /\ build' = [build EXCEPT !.includes =
                     @ \o <<forwarding_headers_path,
                            join_name(forwarding_headers_path, module_name),
                            config_headers_path,
                            join_name(config_headers_path, module_name)>>]
    /\ pc' = "files"
    /\ UNCHANGED <<disk, hidx, oplog>>
    /\ UNCHANGED NotCompileVars

\* self.build.include(..) four times (lib.rs 524-528)
AddIncludePaths ==
    /\ pc = "include"
    /\ build' = [build EXCEPT !.includes =
                     @ \o <<config_headers_path,
                            join_name(config_headers_path, module_name),
                            forwarding_headers_path,
                            join_name(forwarding_headers_path, module_name)>>]
    /\ pc' = "files"
    /\ UNCHANGED <<disk, hidx, oplog>>
    /\ UNCHANGED NotCompileVars

\* self.build.files(&self.module_sources) (lib.rs 534)
AddSourceFiles ==
    /\ pc = "files"
    /\ build' = [build EXCEPT !.files = @ \o module_sources]
    /\ pc' = "cc"
    /\ UNCHANGED <<disk, hidx, oplog>>
    /\ UNCHANGED NotCompileVars

\* self.build.compile(..) (lib.rs 536)
InvokeCompiler ==
    /\ pc = "cc"
    /\ build' = [build EXCEPT !.compiled = @ + 1]
    /\ pc' = "done"
    /\ UNCHANGED <<disk, hidx, oplog>>
    /\ UNCHANGED NotCompileVars

(***************************************************************************)
(* Inputs of the renderer                                                  *)
(***************************************************************************)
FeatureNames == { <<"A">>, <<"B", "C">> }
DefineKeys   == { <<"K">>, <<"K", "2">> }
DefineValues == { <<"1">>, <<"x", " ", "y">> }

FeatureEntries == FeatureNames \X BOOLEAN
DefineEntries  == DefineKeys \X DefineValues

FeatureLists == SeqsUpTo(FeatureEntries, MaxEntries)
DefineLists  == SeqsUpTo(DefineEntries, MaxEntries)

(***************************************************************************)
(* Inputs of the scanner                                                   *)
(***************************************************************************)
TOK_Object     == <<"O", "b", "j", "e", "c", "t">>
TOK_Widget     == <<"W", "i", "d", "g", "e", "t">>
TOK_QObject    == <<"Q", "O", "b", "j", "e", "c", "t">>
TOK_QObjectSemi == <<"Q", "O", "b", "j", "e", "c", "t", ";">>
TOK_FOO_EXPORT == <<"F", "O", "O", "_", "E", "X", "P", "O", "R", "T">>
TOK_Q_PROPERTY == <<"Q", "_", "P", "R", "O", "P", "E", "R", "T", "Y">>
TOK_QListInt   == <<"Q", "L", "i", "s", "t", "<", "i", "n", "t", ">">>
TOK_QNsKey     == <<"Q", "N", "s", ":", ":", "K", "e", "y">>
TOK_QHash      == <<"Q", "#">>
TOK_open       == <<"{">>
TOK_close      == <<"}", ";">>

PlainNames == {TOK_Object, TOK_Widget, TOK_QObject}
MacroTokens == {TOK_FOO_EXPORT, TOK_Q_PROPERTY}

ScanTokens ==
    {STR_class, TOK_Object, TOK_Widget, TOK_QObject, TOK_QObjectSemi, TOK_FOO_EXPORT,
     TOK_Q_PROPERTY, TOK_QListInt, TOK_QNsKey, TOK_QHash, TOK_open, TOK_close}

Separators == { <<" ">>, <<"\n", "\t">> }

RECURSIVE join_tokens(_, _)
\* the tokens written out with sep after each of them
join_tokens(tokens, sep) ==
    IF tokens = <<>> THEN <<>>
    ELSE Head(tokens) \o sep \o join_tokens(Tail(tokens), sep)

\* `class <Name> { };`
ClassDecl(name) == <<STR_class, name, TOK_open, TOK_close>>
\* `class <MACRO> <Name> { };`
ExportedClassDecl(macro, name) == <<STR_class, macro, name, TOK_open, TOK_close>>

\* `class <MACRO> <MACRO> <Name>`
TwiceExportedClassDecl(macro, other, name) == <<STR_class, macro, other, name>>

HeaderTokenSeqs ==
    SeqsUpTo(ScanTokens, MaxTokens)
        \cup { ClassDecl(n) : n \in PlainNames }
        \cup { ExportedClassDecl(m, n) : m \in MacroTokens, n \in PlainNames }
        \cup { TwiceExportedClassDecl(m, o, n) :
                   m \in MacroTokens, o \in MacroTokens, n \in PlainNames }

HeaderTexts == { join_tokens(t, sep) : t \in HeaderTokenSeqs, sep \in Separators }

(***************************************************************************)
(* The source tree on disk and the inputs of the forwarding-header writer  *)
(***************************************************************************)
SrcDir == <<N_w, N_src>>
OutDir == <<N_w, N_out>>
MkspecDir == <<N_w, N_qt, N_qtbase, N_mkspecs, N_linux_clang>>

\* what qobject.h holds: `class QObject { };`
QObjectHeaderText == join_tokens(ClassDecl(TOK_QObject), <<" ">>)
\* what qobject_p.h holds: `class Q_PROPERTY QObject`, a declaration cut short
QObjectPrivateHeaderText ==
    join_tokens(<<STR_class, TOK_Q_PROPERTY, TOK_QObject>>, <<"\n", "\t">>)

SourceTree ==
    [dirs |-> {Root, <<N_w>>, SrcDir, OutDir, <<N_w, N_qt>>, <<N_w, N_qt, N_qtbase>>,
               <<N_w, N_qt, N_qtbase, N_mkspecs>>, MkspecDir},
     files |-> [f \in {Append(SrcDir, N_qobject_h), Append(SrcDir, N_qobject_p_h),
                       Append(MkspecDir, N_qplatformdefs_h)} |->
                   IF f = Append(SrcDir, N_qobject_h) THEN QObjectHeaderText
                   ELSE IF f = Append(SrcDir, N_qobject_p_h) THEN QObjectPrivateHeaderText
                   ELSE <<>>]]

\* header paths handed to the writer: relative, absolute, private, through the
\* symlink, the platform definitions, and one that is not on disk
HeaderPaths ==
    {RelPath(<<N_src, N_qobject_h>>),
     AbsPath(<<N_w, N_src, N_qobject_h>>),
     RelPath(<<N_src, N_qobject_p_h>>),
     AbsPath(<<N_lnk, PARENT, N_src, N_qobject_h>>),
     join(RelPath(<<N_qt>>), LinuxQPlatformdefs),
     RelPath(<<N_src, N_gone_h>>)}

\* build directories: absolute, relative to the current directory, reached
\* through the symlink, and spelled with a ".."
BuildDirs ==
    {AbsPath(<<N_w, N_out>>),
     RelPath(<<N_out>>),
     AbsPath(<<N_lnk>>),
     AbsPath(<<N_w, N_src, PARENT, N_out>>)}

ModuleNames == {N_QtCore}

\* the directories compile writes forwarding headers into
DestinationDirs ==
    UNION { { join(b, RelPath(<<N_config_headers, m>>)),
              join(b, RelPath(<<N_forwarding_headers, m>>)),
              join(b, RelPath(<<N_forwarding_headers, m, N_private>>)) }
            : b \in BuildDirs, m \in ModuleNames }

RECURSIVE create_all(_, _)
\* create_dir_all over a sequence of paths none of which can fail
create_all(f, paths) ==
    IF paths = <<>> THEN f ELSE create_all(create_dir_all(f, Head(paths))[1], Tail(paths))

\* the source tree with every destination directory created
TreeWithDestinations ==
    create_all(SourceTree,
               <<join(AbsPath(OutDir), RelPath(<<N_config_headers, N_QtCore>>)),
                 join(AbsPath(OutDir), RelPath(<<N_forwarding_headers, N_QtCore, N_private>>))>>)

(***************************************************************************)
(* The values of the variables a specification does not use                *)
(***************************************************************************)
RenderIdle ==
    /\ r_features = <<>>
    /\ r_defines = <<>>
    /\ r_kind = "idle"
    /\ r_text = <<>>

ScanIdle ==
    /\ header_text = <<>>
    /\ scan_pc = "idle"
    /\ qt_classes = <<>>

ForwardIdle ==
    /\ fw_call = <<>>
    /\ fw_result = "idle"

BuilderIdle == new

AllIdle ==
    /\ all_call = <<>>
    /\ all_headers = <<>>
    /\ all_pc = "idle"
    /\ all_idx = 1

CompileIdle ==
    /\ pc = "idle"
    /\ hidx = 1
    /\ oplog = <<>>
    /\ build = [includes |-> <<>>, files |-> <<>>, compiled |-> 0]
    /\ run = 1
    /\ first_disk = None
    /\ tasks = <<>>
    /\ AllIdle

(***************************************************************************)
(* SpecRender: the renderer applied to every bounded input                 *)
(***************************************************************************)
RenderInit ==
    /\ r_features \in FeatureLists
    /\ r_defines \in DefineLists
    /\ r_kind = "none"
    /\ r_text = <<>>
    /\ ScanIdle
    /\ disk = SourceTree
    /\ ForwardIdle
    /\ BuilderIdle
    /\ CompileIdle

Render(kind, text) ==
    /\ r_kind = "none"
    /\ r_kind' = kind
    /\ r_text' = text
    /\ UNCHANGED <<r_features, r_defines>>
    /\ UNCHANGED <<scanVars, disk, forwardVars, builderVars, compileVars>>

RenderFeatureDefines == Render("make_feature_defines", make_feature_defines(r_features))
RenderDefineString   == Render("make_define_string", make_define_string(r_defines))
RenderQConfig        == Render("qconfig.h", qconfig_content(r_features, r_defines))
RenderQConfigPrivate == Render("qconfig_p.h", qconfig_private_content(r_features))
RenderModuleConfig   == Render("module-config.h", module_config_content(r_features, r_defines))
\* module_private_defines_ has no setter: it is always the empty list
RenderModulePrivateConfig ==
    /\ r_defines = <<>>
    /\ Render("module-config_p.h", module_private_config_content(r_features, r_defines))
RenderWriteConfigHeader ==
    Render("write_config_header", write_config_header_content(r_defines, r_features))

RenderNext ==
    \/ RenderFeatureDefines
    \/ RenderDefineString
    \/ RenderQConfig
    \/ RenderQConfigPrivate
    \/ RenderModuleConfig
    \/ RenderModulePrivateConfig
    \/ RenderWriteConfigHeader

SpecRender == RenderInit /\ [][RenderNext]_vars

(***************************************************************************)
(* SpecScan: the scanner applied to every bounded header text              *)
(***************************************************************************)
ScanInit ==
    /\ header_text \in HeaderTexts
    /\ scan_pc = "ready"
    /\ qt_classes = <<>>

\* the scan of write_class_forwarding_header: read, split, window, filter
Scan ==
    /\ scan_pc = "ready"
    /\ qt_classes' = scan_qt_classes(header_text)
    /\ scan_pc' = "scanned"
    /\ UNCHANGED header_text

SpecScanInit ==
    ScanInit /\ RenderIdle /\ disk = SourceTree /\ ForwardIdle /\ BuilderIdle /\ CompileIdle

SpecScanNext ==
    Scan /\ UNCHANGED <<renderVars, disk, forwardVars, builderVars, compileVars>>

SpecScan == SpecScanInit /\ [][SpecScanNext]_vars

(***************************************************************************)
(* SpecForward: one call of write_forwarding_header on every bounded input *)
(***************************************************************************)
ForwardInit ==
    /\ disk = TreeWithDestinations
    /\ fw_call = <<>>
    /\ fw_result = "none"
    /\ RenderIdle
    /\ ScanIdle
    /\ BuilderIdle
    /\ CompileIdle

\* the state after a call that returned the file system `after` or panicked
Forwarded(impl, dest, target, after) ==
    /\ fw_result = "none"
    /\ fw_call' = <<[impl |-> impl, dest |-> dest, target |-> target]>>
    /\ fw_result' = IF after = None THEN "panic" ELSE "ok"
    /\ disk' = IF after = None THEN disk ELSE after[1]
    /\ UNCHANGED <<renderVars, scanVars, builderVars, compileVars>>

LibWriteForwardingHeader ==
    \E dest \in DestinationDirs, target \in HeaderPaths :
        Forwarded("lib", dest, target, write_forwarding_header(disk, dest, target))

CfgWriteForwardingHeader ==
    \E dest \in DestinationDirs, target \in HeaderPaths :
        Forwarded("cfg", dest, target, cfg_write_forwarding_header(disk, dest, target))

ForwardNext ==
    \/ LibWriteForwardingHeader
    \/ CfgWriteForwardingHeader

SpecForward == ForwardInit /\ [][ForwardNext]_vars

(***************************************************************************)
(* SpecBuilder: configuration calls on a new QtModuleBuilder               *)
(***************************************************************************)
NameA == <<"A">>
NameB == <<"B">>

\* feature lists handed to the setters; one names A twice
FeatureInputs ==
    { << <<NameA, TRUE>> >>,
      << <<NameA, TRUE>>, <<NameA, FALSE>> >>,
      << <<NameB, FALSE>>, <<NameA, TRUE>> >> }

\* define lists handed to the setters; one names K twice
DefineInputs ==
    { << <<<<"K">>, <<"1">>>> >>,
      << <<<<"K">>, <<"1">>>>, <<<<"K">>, <<"2">>>> >> }

QtSourceInputs == {RelPath(<<N_qt>>)}

BuilderInit ==
    /\ new
    /\ RenderIdle
    /\ ScanIdle
    /\ disk = SourceTree
    /\ ForwardIdle
    /\ CompileIdle

BuilderNext ==
    /\ \/ \E l \in FeatureInputs : global_features(l)
       \/ \E l \in FeatureInputs : global_private_features(l)
       \/ \E l \in FeatureInputs : module_features(l)
       \/ \E l \in FeatureInputs : module_private_features(l)
       \/ \E l \in DefineInputs : global_defines(l)
       \/ \E l \in DefineInputs : module_defines(l)
       \/ \E q \in QtSourceInputs : configure_for_linux_target(q)
       \/ configure_for_qtcore_module
    /\ UNCHANGED <<renderVars, scanVars, disk, forwardVars, compileVars>>

SpecBuilder == BuilderInit /\ [][BuilderNext]_vars

(***************************************************************************)
(* SpecCompile: compile() on every bounded builder configuration           *)
(***************************************************************************)
\* the headers glob_headers may have listed: public, private, one reached
\* through the symlink, and one deleted since it was listed
CompileHeaders ==
    {RelPath(<<N_src, N_qobject_h>>),
     RelPath(<<N_src, N_qobject_p_h>>),
     AbsPath(<<N_lnk, PARENT, N_src, N_qobject_h>>),
     RelPath(<<N_src, N_gone_h>>)}

CompileHeaderLists == SeqsUpTo(CompileHeaders, MaxHeaders)

\* build_path() arguments; the last one names a file, not a directory
CompileBuildDirs == BuildDirs \cup {AbsPath(<<N_w, N_src, N_qobject_h>>)}

CompilePlatformdefs ==
    {None,
     Some(join(RelPath(<<N_qt>>), LinuxQPlatformdefs)),
     Some(RelPath(<<N_qt, N_gone_h>>))}

\* bucket contents: after configure_for_linux_target and
\* configure_for_qtcore_module, and after setters with lists of the caller
CompileBuckets ==
    { [b \in BucketNames |->
          CASE b = "global_features" -> features_global_features
            [] b = "global_private_features" -> features_global_private_features
            [] b = "global_defines" -> features_global_defines
            [] b = "module_features" -> features_qt_core_features
            [] b = "module_private_features" -> features_qt_core_private_features
            [] b = "module_defines" -> features_qt_core_defines
            [] b = "module_private_defines" -> <<>>],
      [b \in BucketNames |->
          CASE b = "global_features" -> << <<NameA, TRUE>>, <<NameA, FALSE>> >>
            [] b = "global_private_features" -> << <<NameB, FALSE>>, <<NameA, TRUE>> >>
            [] b = "global_defines" -> << <<<<"K">>, <<"1">>>>, <<<<"K">>, <<"2">>>> >>
            [] b = "module_features" -> <<>>
            [] b = "module_private_features" -> << <<NameA, TRUE>> >>
            [] b = "module_defines" -> << <<<<"K">>, <<"1">>>> >>
            [] b = "module_private_defines" -> <<>>] }

CompileInit ==
    /\ module_name \in ModuleNames
    /\ qt_source_path = RelPath(<<N_src>>)
    /\ module_headers \in CompileHeaderLists
    /\ module_sources = <<RelPath(<<N_src, N_qglobal_cpp>>)>>
    /\ given \in CompileBuckets
    /\ global_features_ = given["global_features"]
    /\ global_private_features_ = given["global_private_features"]
    /\ global_defines_ = given["global_defines"]
    /\ module_features_ = given["module_features"]
    /\ module_private_features_ = given["module_private_features"]
    /\ module_defines_ = given["module_defines"]
    /\ module_private_defines_ = given["module_private_defines"]
    /\ qplatformdefs_ \in CompilePlatformdefs
    /\ build_dir_ \in {None} \cup { Some(b) : b \in CompileBuildDirs }
    /\ disk = SourceTree
    /\ pc = "compile"
    /\ hidx = 1
    /\ oplog = <<>>
    /\ build = [includes |-> <<>>, files |-> <<>>, compiled |-> 0]
    /\ run = 1
    /\ first_disk = None
    /\ tasks = <<>>
    /\ AllIdle
    /\ RenderIdle
    /\ ScanIdle
    /\ ForwardIdle

\* the build is run again from the same configuration, into a fresh output
\* directory or over what the run before left there
Rerun ==
    /\ pc = "done"
    /\ run < MaxRuns
    /\ run' = run + 1
    /\ first_disk' = Some(disk)
    /\ disk' \in {disk, SourceTree}
    /\ pc' = "compile"
    /\ hidx' = 1
    /\ oplog' = <<>>
    /\ build' = [includes |-> <<>>, files |-> <<>>, compiled |-> 0]
    /\ UNCHANGED <<renderVars, scanVars, forwardVars, builderVars, tasks, allVars>>

CompileNext ==
    \/ Rerun
    \/ CompileBegin
    \/ CreateModulePath
    \/ WriteQPlatformdefs
    \/ WriteQConfig
    \/ CreateModulePrivatePath
    \/ WriteQConfigPrivate
    \/ CreateModuleConfigDir
    \/ WriteModuleConfig
    \/ CreateModulePrivateConfigDir
    \/ WriteModulePrivateConfig
    \/ CreateForwardingDir
    \/ WriteForwardingHeaders
    \/ CreatePrivateForwardingDir
    \/ WritePrivateForwardingHeaders
    \/ AddIncludePaths
    \/ AddSourceFiles
    \/ InvokeCompiler

SpecCompile == CompileInit /\ [][CompileNext]_vars

(***************************************************************************)
(* Claims about the renderer                                               *)
(***************************************************************************)
RECURSIVE LinesOffset(_, _)
\* number of characters before line i when the lines are laid end to end
LinesOffset(lines, i) ==
    IF i <= 1 THEN 0 ELSE LinesOffset(lines, i - 1) + Len(lines[i - 1])

\* text is exactly the given lines laid end to end, in order
IsLinesInOrder(text, lines) ==
    /\ Len(text) = LinesOffset(lines, Len(lines) + 1)
    /\ \A i \in 1..Len(lines) :
           SubSeq(text, LinesOffset(lines, i) + 1, LinesOffset(lines, i + 1)) = lines[i]

\* the line the claim gives for a feature entry
ExpectedFeatureLine(e) ==
    STR_define \o STR_QT_FEATURE \o e[1]
        \o (IF e[2] THEN <<" ", "1", "\n">> ELSE <<" ", "-", "1", "\n">>)

\* the line the claim gives for a define entry
ExpectedDefineLine(e) == STR_define \o e[1] \o <<" ">> \o e[2] \o <<"\n">>

ExpectedFeatureLines(features) ==
    [i \in 1..Len(features) |-> ExpectedFeatureLine(features[i])]

ExpectedDefineLines(defines) ==
    [i \in 1..Len(defines) |-> ExpectedDefineLine(defines[i])]

\* C1: the rendered text of a feature list / define list is one line per
\* entry, in insertion order: "#define QT_FEATURE_<NAME> 1" for (name, true),
\* "#define QT_FEATURE_<NAME> -1" for (name, false), "#define <KEY> <VALUE>"
\* for a define, each newline-terminated, nothing dropped, added or reordered.
C1_RenderOneLinePerEntry ==
    /\ r_kind = "make_feature_defines" =>
           IsLinesInOrder(r_text, ExpectedFeatureLines(r_features))
    /\ r_kind = "make_define_string" =>
           IsLinesInOrder(r_text, ExpectedDefineLines(r_defines))

\* a two-entry list with an enabled and a disabled feature has been rendered
C1_Witness ==
    /\ r_kind = "make_feature_defines"
    /\ Len(r_features) = 2
    /\ r_features[1][2] /\ ~r_features[2][2]
    /\ r_features[1][1] # r_features[2][1]

ConfigHeaderKinds ==
    {"qconfig.h", "qconfig_p.h", "module-config.h", "module-config_p.h",
     "write_config_header"}

\* the define bucket a header kind is rendered from (the global-private header
\* of compile has none)
DefinesOfKind == IF r_kind = "qconfig_p.h" THEN <<>> ELSE r_defines

\* C2: every configuration header is the QT_FEATURE block, one blank line,
\* then the #define block, with nothing after the last entry.
C2_ConfigHeaderLayout ==
    r_kind \in ConfigHeaderKinds =>
        r_text = Concat(ExpectedFeatureLines(r_features)) \o <<"\n">>
                     \o Concat(ExpectedDefineLines(DefinesOfKind))

(***************************************************************************)
(* Claims about the scanner                                                *)
(***************************************************************************)
Range(f) == { f[i] : i \in DOMAIN f }

\* the scan of a header that is one class declaration of name n, in either
\* form, gave exactly {n}
SingleDeclYieldsName(n) ==
    \A sep \in Separators :
        /\ header_text = join_tokens(ClassDecl(n), sep) => Range(qt_classes) = {n}
        /\ \A m \in MacroTokens :
               header_text = join_tokens(ExportedClassDecl(m, n), sep)
                   => Range(qt_classes) = {n}

\* the scan of a header that is one class declaration of name n emitted nothing
SingleDeclYieldsNothing(n) ==
    \A sep \in Separators :
        /\ header_text = join_tokens(ClassDecl(n), sep) => qt_classes = <<>>
        /\ \A m \in MacroTokens :
               header_text = join_tokens(ExportedClassDecl(m, n), sep)
                   => qt_classes = <<>>

\* C4 as stated: `class <Name> { };` and `class <MACRO> <Name> { };` scan to
\* exactly {<Name>} for every plain identifier <Name> (Object, Widget, ...).
C4_AnyPlainNameEmitted ==
    scan_pc = "scanned" => \A n \in PlainNames : SingleDeclYieldsName(n)

\* C4 amended: the single declaration scans to exactly {<Name>} when the plain
\* identifier <Name> begins with Q, and to the empty set when it does not.
C4_QNameEmitted ==
    scan_pc = "scanned" =>
        \A n \in PlainNames :
            IF n[1] = "Q" THEN SingleDeclYieldsName(n) ELSE SingleDeclYieldsNothing(n)

\* `class FOO_EXPORT QObject { };` has been scanned and gave QObject
C4_Witness ==
    /\ scan_pc = "scanned"
    /\ header_text = join_tokens(ExportedClassDecl(TOK_FOO_EXPORT, TOK_QObject), <<" ">>)
    /\ qt_classes = <<TOK_QObject>>

ForbiddenChars == {";", ":", "#", "_", "<", ">"}

\* C5: no emitted type name contains any of ; : # _ < >, whatever the header.
C5_NoForbiddenCharEmitted ==
    scan_pc = "scanned" =>
        \A i \in 1..Len(qt_classes) :
            \A k \in 1..Len(qt_classes[i]) : qt_classes[i][k] \notin ForbiddenChars

\* `class Q_PROPERTY QObject` has been scanned: the macro was passed over
C5_Witness ==
    /\ scan_pc = "scanned"
    /\ header_text = join_tokens(<<STR_class, TOK_Q_PROPERTY, TOK_QObject>>, <<" ">>)
    /\ qt_classes = <<TOK_QObject>>

(***************************************************************************)
(* Claims about one forwarding header                                      *)
(***************************************************************************)
RECURSIVE split_on_slash(_, _)
\* the pieces of s between the "/" characters, cur being the piece read so far
split_on_slash(s, cur) ==
    IF s = <<>> THEN <<cur>>
    ELSE IF Head(s) = "/" THEN <<cur>> \o split_on_slash(Tail(s), <<>>)
    ELSE split_on_slash(Tail(s), Append(cur, Head(s)))

\* the path between the quotes of a file that is one #include "<path>" line
\* and nothing else, or None when the file is anything else
included_path(content) ==
    LET n == Len(content)
        a == Len(STR_include)
        z == Len(STR_include_end)
    IN  IF n <= a + z THEN None
        ELSE IF SubSeq(content, 1, a) # STR_include THEN None
        ELSE IF SubSeq(content, n - z + 1, n) # STR_include_end THEN None
        ELSE LET text == SubSeq(content, a + 1, n - z)
             IN  IF \E i \in 1..Len(text) : text[i] \in {"\"", "\n"} THEN None
                 ELSE IF text[1] = "/"
                      THEN Some(AbsPath(split_on_slash(Tail(text), <<>>)))
                      ELSE Some(RelPath(split_on_slash(text, <<>>)))

\* the call made, where the forwarding header of that call lies, and its target
TheCall == fw_call[1]
ForwardingDir == resolve(disk, TheCall.dest)[1]
ForwardingFile == Append(ForwardingDir, file_name(TheCall.target)[1])
TargetFile == resolve(disk, TheCall.target)[1]

\* where an include path leads when followed component by component from dir
follow_include(dir, path) ==
    walk(disk, IF path.abs THEN Root ELSE dir, path.comps)

\* the number of leading components two component lists share
CommonPrefixLen(a, b) ==
    CHOOSE k \in 0..Len(a) :
        /\ k <= Len(b)
        /\ SubSeq(a, 1, k) = SubSeq(b, 1, k)
        /\ (k < Len(a) /\ k < Len(b)) => a[k + 1] # b[k + 1]

\* the path the amended C6 describes, from the directory path as written
TextualIncludePath(dir, target) ==
    IF ~dir.abs THEN target
    ELSE LET k == CommonPrefixLen(dir.comps, target.comps)
         IN  RelPath([i \in 1..(Len(dir.comps) - k) |-> PARENT]
                         \o SubSeq(target.comps, k + 1, Len(target.comps)))

C7_IncludeLeadsBackToTarget ==
    fw_result = "ok" =>
        LET p == included_path(disk.files[ForwardingFile])
        IN  /\ p # None
            /\ follow_include(ForwardingDir, p[1]) = Some(TargetFile)

(***************************************************************************)
(* Claims about the buckets                                                *)
(***************************************************************************)
Bucket(b) ==
    CASE b = "global_features" -> global_features_
      [] b = "global_private_features" -> global_private_features_
      [] b = "global_defines" -> global_defines_
      [] b = "module_features" -> module_features_
      [] b = "module_private_features" -> module_private_features_
      [] b = "module_defines" -> module_defines_
      [] b = "module_private_defines" -> module_private_defines_

\* the list names some name twice
HasDuplicateName(list) ==
    \E i, j \in 1..Len(list) : i # j /\ list[i][1] = list[j][1]

\* C3 as stated: after any sequence of configuration calls, no bucket holds
\* two entries with the same name.
C3_NoDuplicateNames ==
    \A b \in BucketNames : ~HasDuplicateName(Bucket(b))

\* C3 amended: each bucket holds exactly the list handed to the last call
\* that set it, so it names a name twice only when that list does.
C3_BucketIsLastListGiven ==
    \A b \in BucketNames :
        /\ Bucket(b) = given[b]
        /\ HasDuplicateName(Bucket(b)) => HasDuplicateName(given[b])

\* global_features was set twice, last with a list without repetition, after
\* a list that named A twice: only the last list is left
C3_Witness ==
    /\ global_features_ = << <<NameB, FALSE>>, <<NameA, TRUE>> >>
    /\ module_features_ = << <<NameA, TRUE>>, <<NameA, FALSE>> >>
    /\ global_defines_ = << <<<<"K">>, <<"1">>>> >>

(***************************************************************************)
(* Claims about compile                                                    *)
(***************************************************************************)
\* compile is about to write the forwarding header of this target, if any
CurrentTarget ==
    IF pc = "qplatformdefs" THEN qplatformdefs_
    ELSE IF pc \in {"forwarding_headers", "private_forwarding_headers"}
            /\ hidx <= Len(module_headers)
         THEN Some(module_headers[hidx])
    ELSE None

CurrentTargetMissing ==
    CurrentTarget # None /\ resolve(disk, CurrentTarget[1]) = None

\* C8: when the target of the forwarding header compile is about to write is
\* not on disk, the next step is the panic and it writes nothing (no file for
\* that header, no later header), and nothing happens after a panic.
C8_MissingTargetFailsHard ==
    [][/\ pc # "panicked"
       /\ CurrentTargetMissing => (pc' = "panicked" /\ disk' = disk)]_vars

\* compile panicked at the second header, which is not on disk: the first
\* header has its forwarding header, the missing one has none
C8_Witness ==
    /\ pc = "panicked"
    /\ build_dir_ = Some(AbsPath(<<N_w, N_out>>))
    /\ module_headers = <<RelPath(<<N_src, N_qobject_h>>), RelPath(<<N_src, N_gone_h>>)>>
    /\ hidx = 2
    /\ IsFile(disk, <<N_w, N_out, N_forwarding_headers, N_QtCore, N_qobject_h>>)
    /\ ~IsFile(disk, <<N_w, N_out, N_forwarding_headers, N_QtCore, N_gone_h>>)
    /\ ~IsDir(disk, <<N_w, N_out, N_forwarding_headers, N_QtCore, N_private>>)

PublicForwardingDir == resolve(disk, public_forwarding_path)[1]
PrivateForwardingDir == resolve(disk, private_forwarding_path)[1]

\* C9: after compile each module header has its forwarding header in exactly
\* one place: under private/ when its name has _p.h, else in the public
\* directory.
C9_PublicPrivateSegregated ==
    pc = "done" =>
        \A i \in 1..Len(module_headers) :
            LET name == file_name(module_headers[i])[1]
                public == IsFile(disk, Append(PublicForwardingDir, name))
                private == IsFile(disk, Append(PrivateForwardingDir, name))
            IN  IF is_private(module_headers[i])
                THEN private /\ ~public
                ELSE public /\ ~private

\* C10: when compile has finished, every type name the scanner emits for a
\* module header has a file of that name in the public forwarding directory
\* that includes that header.
C10_TypeNameForwardingHeaders ==
    pc = "done" =>
        \A i \in 1..Len(module_headers) :
            LET target == resolve(disk, module_headers[i])[1]
                names == scan_qt_classes(disk.files[target])
            IN  \A k \in 1..Len(names) :
                    /\ IsFile(disk, Append(PublicForwardingDir, names[k]))
                    /\ disk.files[Append(PublicForwardingDir, names[k])] =
                           include_statement(
                               diff_paths(AbsPath(target), public_forwarding_path)[1])

(***************************************************************************)
(* Claims about the order of the steps of compile                          *)
(***************************************************************************)
\* the file a path names is on disk
OnDisk(path) ==
    LET loc == resolve(disk, path) IN loc # None /\ IsFile(disk, loc[1])

\* the platform-definitions forwarding header, the four configuration headers
\* and a forwarding header for every module header in each forwarding directory
AllHeadersOnDisk ==
    /\ qplatformdefs_ # None
    /\ OnDisk(join_name(module_path, file_name(qplatformdefs_[1])[1]))
    /\ OnDisk(qconfig_path)
    /\ OnDisk(qconfig_p_path)
    /\ OnDisk(module_config_path)
    /\ OnDisk(module_private_config_path)
    /\ \A i \in 1..Len(module_headers) :
           /\ OnDisk(join_name(public_forwarding_path, file_name(module_headers[i])[1]))
           /\ OnDisk(join_name(private_forwarding_path, file_name(module_headers[i])[1]))

\* C11: the compiler driver is invoked at most once in a run of compile, only
\* when every header has been written and nothing failed; a run that panicked
\* has not invoked it.
C11_CompilerOnlyAfterAllHeaders ==
    /\ build.compiled <= 1
    /\ build.compiled = 1 => (pc = "done" /\ build_dir_ # None /\ AllHeadersOnDisk)
    /\ pc = "panicked" => build.compiled = 0

\* a run with two module headers that reached the compiler
C11_Witness ==
    /\ pc = "done"
    /\ build.compiled = 1
    /\ Len(module_headers) = 2
    /\ AllHeadersOnDisk

\* C12: in a run of compile every directory is created before the first header
\* file is written: no write comes before a create_dir_all.
C12_DirectoriesBeforeFiles ==
    \A i \in 1..Len(oplog) : \A j \in 1..Len(oplog) :
        (i < j /\ oplog[i].op = "write") => oplog[j].op # "create_dir_all"

ConfigIncludeDirs == {config_headers_path, join_name(config_headers_path, module_name)}
ForwardingIncludeDirs ==
    {forwarding_headers_path, join_name(forwarding_headers_path, module_name)}

\* C13: every config-header directory is registered as an include directory
\* before every forwarding-header directory, and all four are registered
\* before the source files are handed over and before the compiler is invoked.
C13_ConfigIncludesBeforeForwarding ==
    /\ build.includes # <<>> =>
           \A i \in 1..Len(build.includes) : \A j \in 1..Len(build.includes) :
               (build.includes[i] \in ConfigIncludeDirs
                    /\ build.includes[j] \in ForwardingIncludeDirs) => i < j
    /\ (build.files # <<>> \/ build.compiled > 0) =>
           (ConfigIncludeDirs \cup ForwardingIncludeDirs)
               \subseteq { build.includes[i] : i \in 1..Len(build.includes) }
    /\ build.compiled > 0 => build.files = module_sources

\* the compiler was invoked with the four include directories registered
C13_Witness ==
    /\ pc = "done"
    /\ build.compiled = 1
    /\ Len(build.includes) = 4
    /\ build.includes[1] = config_headers_path
    /\ build.includes[4] = join_name(forwarding_headers_path, module_name)
    /\ build.files = module_sources
    /\ module_sources # <<>>

(***************************************************************************)
(* The two forwarding-header calls of compile as two tasks                 *)
(***************************************************************************)
RECURSIVE forward_from(_, _, _, _)
\* the loop of write_forwarding_headers from header i on: the file system it
\* leaves, and whether it returned (ok) or panicked
forward_from(fs, path, headers, i) ==
    IF i > Len(headers) THEN [fs |-> fs, ok |-> TRUE]
    ELSE LET r == write_forwarding_header(fs, path, headers[i])
         IN  IF r = None THEN [fs |-> fs, ok |-> FALSE]
             ELSE forward_from(r[1], path, headers, i + 1)

\* lib.rs QtModuleBuilder::write_forwarding_headers as a whole
write_forwarding_headers(fs, path, headers) ==
    LET d == create_dir_all(fs, path)
    IN  IF d = None THEN [fs |-> fs, ok |-> FALSE]
        ELSE forward_from(d[1], path, headers, 1)

\* compile: create_forwarding_headers, then create_private_forwarding_headers
sequential_forwarding(fs) ==
    LET public == write_forwarding_headers(fs, public_forwarding_path, module_headers)
    IN  IF ~public.ok THEN public
        ELSE write_forwarding_headers(public.fs, private_forwarding_path, module_headers)

TaskNames == {"public", "private"}

\* both tasks writing into the public directory
task_path_shared(t) == public_forwarding_path

\* the directory a task writes into
task_path(t) == IF t = "public" THEN public_forwarding_path ELSE private_forwarding_path

TaskMoves(t, to, i, wrote) ==
    tasks' = [tasks EXCEPT ![t] = [pc |-> to, i |-> i, wrote |-> wrote]]

\* std::fs::create_dir_all(&path) of write_forwarding_headers, by task t
TaskCreateDir(t) ==
    /\ tasks[t].pc = "create_dir"
    /\ LET r == create_dir_all(disk, task_path(t))
       IN  IF r = None
           THEN TaskMoves(t, "panicked", tasks[t].i, tasks[t].wrote) /\ disk' = disk
           ELSE TaskMoves(t, "loop", tasks[t].i, tasks[t].wrote) /\ disk' = r[1]

\* one turn of the loop of write_forwarding_headers, by task t
TaskForward(t) ==
    /\ tasks[t].pc = "loop"
    /\ LET i == tasks[t].i
       IN  IF i > Len(module_headers)
           THEN TaskMoves(t, "done", i, tasks[t].wrote) /\ disk' = disk
           ELSE LET r == write_forwarding_header(disk, task_path(t), module_headers[i])
                    name == file_name(module_headers[i])
                IN  IF r = None
                    THEN TaskMoves(t, "panicked", i, tasks[t].wrote) /\ disk' = disk
                    ELSE /\ disk' = r[1]
                         /\ TaskMoves(t, "loop", i + 1,
                                IF name = None THEN tasks[t].wrote
                                ELSE tasks[t].wrote
                                       \cup {resolve(r[1], join_name(task_path(t), name[1]))[1]})

PublicTask ==
    /\ TaskCreateDir("public") \/ TaskForward("public")
    /\ UNCHANGED <<renderVars, scanVars, forwardVars, builderVars>>
    /\ UNCHANGED <<pc, hidx, oplog, build, rerunVars, allVars>>

PrivateTask ==
    /\ TaskCreateDir("private") \/ TaskForward("private")
    /\ UNCHANGED <<renderVars, scanVars, forwardVars, builderVars>>
    /\ UNCHANGED <<pc, hidx, oplog, build, rerunVars, allVars>>

\* the builder as compile finds it when it reaches the forwarding headers
TasksInit ==
    /\ module_name \in ModuleNames
    /\ qt_source_path = RelPath(<<N_src>>)
    /\ module_headers \in CompileHeaderLists
    /\ module_sources = <<>>
    /\ global_defines_ = NewBuckets["global_defines"]
    /\ global_features_ = NewBuckets["global_features"]
    /\ global_private_features_ = NewBuckets["global_private_features"]
    /\ module_features_ = <<>>
    /\ module_private_features_ = <<>>
    /\ module_defines_ = <<>>
    /\ module_private_defines_ = <<>>
    /\ qplatformdefs_ = None
    /\ build_dir_ \in { Some(b) : b \in CompileBuildDirs }
    /\ given = NewBuckets
    /\ disk = SourceTree
    /\ tasks = [t \in TaskNames |-> [pc |-> "create_dir", i |-> 1, wrote |-> {}]]
    /\ pc = "idle"
    /\ hidx = 1
    /\ oplog = <<>>
    /\ build = [includes |-> <<>>, files |-> <<>>, compiled |-> 0]
    /\ run = 1
    /\ first_disk = None
    /\ AllIdle
    /\ RenderIdle
    /\ ScanIdle
    /\ ForwardIdle

TasksNext == PublicTask \/ PrivateTask

SpecTasks == TasksInit /\ [][TasksNext]_vars

(***************************************************************************)
(* Claims about the two tasks                                              *)
(***************************************************************************)
TasksJoined == \A t \in TaskNames : tasks[t].pc \in {"done", "panicked"}

C15_RegenerationIsIdempotent ==
    run > 1 =>
        /\ pc # "panicked"
        /\ pc \in {"include", "files", "cc", "done"} =>
               /\ disk.files = first_disk[1].files
               /\ disk.dirs = first_disk[1].dirs

\* a second run over the output of the first, with two module headers, is done
C15_Witness ==
    /\ run = 2
    /\ pc = "done"
    /\ Len(module_headers) = 2
    /\ Len(oplog) = 15
    /\ disk = first_disk[1]

(***************************************************************************)
(* QtModuleBuilder: the source path and the file lists                     *)
(***************************************************************************)
\* Path::extension of a file name: what follows its last dot, if any
extension(name) ==
    LET dots == { i \in 2..Len(name) : name[i] = "." }
    IN  IF dots = {} THEN None
        ELSE Some(SubSeq(name, (CHOOSE i \in dots : \A j \in dots : j <= i) + 1, Len(name)))

\* every location WalkDir visits from the directory root: root and all below
walk_dir(fs, root) ==
    { loc \in fs.dirs \cup DOMAIN fs.files :
          Len(loc) >= Len(root) /\ SubSeq(loc, 1, Len(root)) = root }

\* QtModuleBuilder::glob_files: the paths of the entries with the extension
glob_files(fs, path, file_ext) ==
    LET root == resolve(fs, path)
    IN  IF root = None THEN {}
        ELSE { join(path, RelPath(SubSeq(loc, Len(root[1]) + 1, Len(loc)))) :
                   loc \in { l \in walk_dir(fs, root[1]) :
                                 l # Root /\ extension(l[Len(l)]) = Some(file_ext) } }

\* the orders in which a directory walk can yield a set of entries
Orderings(S) ==
    { q \in [1..Cardinality(S) -> S] : \A i, j \in 1..Cardinality(S) : q[i] = q[j] => i = j }

FileListFrame ==
    UNCHANGED <<module_name, bucketVars, qplatformdefs_, build_dir_, given>>

\* QtModuleBuilder::source_path
source_path(path) ==
    /\ qt_source_path' = path
    /\ UNCHANGED <<module_headers, module_sources>>
    /\ FileListFrame

\* QtModuleBuilder::glob_headers
glob_headers(dir) ==
    LET files == glob_files(disk, join(qt_source_path, dir), <<"h">>)
    IN  /\ Len(module_headers) + Cardinality(files) <= MaxFiles
        /\ \E order \in Orderings(files) : module_headers' = module_headers \o order
        /\ UNCHANGED <<qt_source_path, module_sources>>
        /\ FileListFrame

\* QtModuleBuilder::glob_sources
glob_sources(dir) ==
    LET files == glob_files(disk, join(qt_source_path, dir), <<"c", "p", "p">>)
    IN  /\ Len(module_sources) + Cardinality(files) <= MaxFiles
        /\ \E order \in Orderings(files) : module_sources' = module_sources \o order
        /\ UNCHANGED <<qt_source_path, module_headers>>
        /\ FileListFrame

\* QtModuleBuilder::source_file
source_file(path) ==
    /\ Len(module_sources) < MaxFiles
    /\ module_sources' = Append(module_sources, join(qt_source_path, path))
    /\ UNCHANGED <<qt_source_path, module_headers>>
    /\ FileListFrame

\* QtModuleBuilder::sources
sources(path, files) ==
    LET prefix == join(qt_source_path, path)
    IN  /\ Len(module_sources) + Len(files) <= MaxFiles
        /\ module_sources' =
               module_sources \o [i \in 1..Len(files) |-> join(prefix, files[i])]
        /\ UNCHANGED <<qt_source_path, module_headers>>
        /\ FileListFrame

N_tools == <<"t", "o", "o", "l", "s">>
N_moc_cpp == <<"m", "o", "c", ".", "c", "p", "p">>

\* the source tree with a source file next to the headers
FilesTree == fs_write(SourceTree, AbsPath(Append(SrcDir, N_qglobal_cpp)), <<>>)[1]

SourcePathInputs == {RelPath(<<N_src>>), AbsPath(<<N_w, N_src>>), RelPath(<<N_qt>>)}
\* a file below the source path, and one given by its absolute path
SourceFileInputs == {RelPath(<<N_qglobal_cpp>>), AbsPath(<<N_w, N_qt, N_moc_cpp>>)}
SourcesInputs == { <<RelPath(<<N_tools>>), <<RelPath(<<N_moc_cpp>>)>>>> }
GlobDirInputs == {RelPath(<<>>), RelPath(<<N_tools>>)}

FilesInit ==
    /\ new
    /\ disk = FilesTree
    /\ RenderIdle
    /\ ScanIdle
    /\ ForwardIdle
    /\ CompileIdle

FilesNext ==
    /\ \/ \E p \in SourcePathInputs : source_path(p)
       \/ \E d \in GlobDirInputs : glob_headers(d)
       \/ \E d \in GlobDirInputs : glob_sources(d)
       \/ \E f \in SourceFileInputs : source_file(f)
       \/ \E a \in SourcesInputs : sources(a[1], a[2])
    /\ UNCHANGED <<renderVars, scanVars, disk, forwardVars, compileVars>>

SpecFiles == FilesInit /\ [][FilesNext]_vars

(***************************************************************************)
(* Claims about the file lists                                             *)
(***************************************************************************)
\* Path::starts_with, component by component
path_starts_with(path, base) ==
    /\ path.abs = base.abs
    /\ Len(path.comps) >= Len(base.comps)
    /\ SubSeq(path.comps, 1, Len(base.comps)) = base.comps

\* C16: every path in the module source list and the module header list
\* begins with the source path the builder holds, whether the file was given
\* before or after the call of source_path.
C16_FilesBeginWithSourcePath ==
    /\ \A i \in 1..Len(module_sources) : path_starts_with(module_sources[i], qt_source_path)
    /\ \A i \in 1..Len(module_headers) : path_starts_with(module_headers[i], qt_source_path)

(***************************************************************************)
(* Claims about compile without build_path                                 *)
(***************************************************************************)
\* C17: on a builder on which build_path was never called, compile does not
\* fail before any header is written.
C17_CompileWithoutBuildPath ==
    build_dir_ = None =>
        ~(pc = "panicked" /\ \A i \in 1..Len(oplog) : oplog[i].op # "write")

(***************************************************************************)
(* Claims about the scan against its reference                             *)
(***************************************************************************)
\* the tokens of a text: its maximal runs of non-whitespace characters, as
\* pairs of first and last position
TokenSpans(text) ==
    { ab \in (1..Len(text)) \X (1..Len(text)) :
          /\ ab[1] <= ab[2]
          /\ \A k \in ab[1]..ab[2] : text[k] \notin Whitespace
          /\ ab[1] = 1 \/ text[ab[1] - 1] \in Whitespace
          /\ ab[2] = Len(text) \/ text[ab[2] + 1] \in Whitespace }

\* the n-th token of a text, counted from 1
ReferenceToken(text, n) ==
    LET ab == CHOOSE x \in TokenSpans(text) :
                  Cardinality({ y \in TokenSpans(text) : y[1] < x[1] }) = n - 1
    IN  SubSeq(text, ab[1], ab[2])

\* a token qualifies: it begins with Q and has none of ; : # _ < >
Qualifies(token) ==
    /\ token # <<>>
    /\ token[1] = "Q"
    /\ \A k \in 1..Len(token) : token[k] \notin {";", ":", "#", "_", "<", ">"}

RECURSIVE ReferenceScanFrom(_, _)
\* what the reference emits for the windows at position i and after
ReferenceScanFrom(text, i) ==
    IF i + 2 > Cardinality(TokenSpans(text)) THEN <<>>
    ELSE LET a == ReferenceToken(text, i)
             b == ReferenceToken(text, i + 1)
             c == ReferenceToken(text, i + 2)
             emitted == IF a # STR_class THEN <<>>
                        ELSE IF Qualifies(b) THEN <<b>>
                        ELSE IF Qualifies(c) THEN <<c>>
                        ELSE <<>>
         IN  emitted \o ReferenceScanFrom(text, i + 1)

\* C18: the names the scan emits are, in order, the names the reference emits:
\* for every window (a, b, c) of three consecutive tokens with a = "class", b
\* when b qualifies, else c when c qualifies, else nothing.
C18_ScanEqualsReference ==
    scan_pc = "scanned" => qt_classes = ReferenceScanFrom(header_text, 1)

\* `class FOO_EXPORT Q_PROPERTY QObject` was scanned and nothing came out: the
\* qualifying name has two non-qualifying tokens between it and "class"
C18_Witness ==
    /\ scan_pc = "scanned"
    /\ split_whitespace(header_text) =
           TwiceExportedClassDecl(TOK_FOO_EXPORT, TOK_Q_PROPERTY, TOK_QObject)
    /\ qt_classes = <<>>

(***************************************************************************)
(* Forwarding a list of headers: write_forwarding_headers (lib.rs) and     *)
(* write_all_forwarding_headers (configure.rs)                             *)
(***************************************************************************)
RECURSIVE write_class_headers(_, _, _, _)
\* the loop `for class in qt_classes` of write_class_forwarding_header
write_class_headers(fs, destination_path, classes, target_header_path) ==
    IF classes = <<>> THEN Some(fs)
    ELSE LET r == write_forwarding_header_2(fs, join_name(destination_path, Head(classes)),
                                            target_header_path)
         IN  IF r = None THEN None
             ELSE write_class_headers(r[1], destination_path, Tail(classes),
                                      target_header_path)

\* configure.rs write_class_forwarding_header: the file system afterwards, or
\* None when the header cannot be read or a write panics
write_class_forwarding_header(fs, destination_path, target_header_path) ==
    LET loc == resolve(fs, target_header_path)
    IN  IF loc = None THEN None
        ELSE IF ~IsFile(fs, loc[1]) THEN None
        ELSE write_class_headers(fs, destination_path,
                                 scan_qt_classes(fs.files[loc[1]]), target_header_path)

AllDestination == all_call[1].destination_path
AllPrivateDestination == join_name(AllDestination, N_private)

AllMoves(to, idx, after) ==
    /\ all_pc' = to
    /\ all_idx' = idx
    /\ disk' = after
    /\ UNCHANGED <<all_call, all_headers>>

AllPanic == AllMoves("panicked", all_idx, disk)

\* lib.rs write_forwarding_headers: create_dir_all(&path)
LibCreateDir ==
    /\ all_pc = "lib_create_dir"
    /\ LET r == create_dir_all(disk, AllDestination)
       IN  IF r = None THEN AllPanic ELSE AllMoves("lib_loop", 1, r[1])

\* lib.rs write_forwarding_headers: one turn of `for header in headers`
LibForwardHeader ==
    /\ all_pc = "lib_loop"
    /\ IF all_idx > Len(all_headers) THEN AllMoves("done", all_idx, disk)
       ELSE LET r == write_forwarding_header(disk, AllDestination, all_headers[all_idx])
            IN  IF r = None THEN AllPanic ELSE AllMoves("lib_loop", all_idx + 1, r[1])

\* write_all_forwarding_headers: create_dir_all(&destination_private_path)
AllCreatePrivateDir ==
    /\ all_pc = "create_private_dir"
    /\ LET r == create_dir_all(disk, AllPrivateDestination)
       IN  IF r = None THEN AllPanic ELSE AllMoves("glob", 1, r[1])

\* write_all_forwarding_headers: util::glob_files(source_path, "h"), in the
\* order the directory walk yields the entries
AllGlob ==
    /\ all_pc = "glob"
    /\ all_headers' \in Orderings(glob_files(disk, all_call[1].source_path, <<"h">>))
    /\ all_pc' = "loop"
    /\ UNCHANGED <<all_call, all_idx, disk>>

\* write_all_forwarding_headers: the filename-based header of one header
AllForwardHeader ==
    /\ all_pc = "loop"
    /\ IF all_idx > Len(all_headers) THEN AllMoves("done", all_idx, disk)
       ELSE LET header_path == all_headers[all_idx]
            IN  IF file_name(header_path) = None THEN AllPanic
                ELSE IF is_private(header_path)
                THEN LET r == cfg_write_forwarding_header(disk, AllPrivateDestination,
                                                          header_path)
                     IN  IF r = None THEN AllPanic
                         ELSE AllMoves("loop", all_idx + 1, r[1])
                ELSE LET r == cfg_write_forwarding_header(disk, AllDestination, header_path)
                     IN  IF r = None THEN AllPanic
                         ELSE AllMoves("classes", all_idx, r[1])

\* write_all_forwarding_headers: the type-name headers of one public header
AllForwardClasses ==
    /\ all_pc = "classes"
    /\ LET r == write_class_forwarding_header(disk, AllDestination, all_headers[all_idx])
       IN  IF r = None THEN AllPanic ELSE AllMoves("loop", all_idx + 1, r[1])

N_fwd == <<"f", "w", "d">>
TOK_QWidget == <<"Q", "W", "i", "d", "g", "e", "t">>

\* what tools/qobject.h holds: `class QObject class FOO_EXPORT QWidget {`
ToolsHeaderText ==
    join_tokens(<<STR_class, TOK_QObject, STR_class, TOK_FOO_EXPORT, TOK_QWidget, TOK_open>>,
                <<" ">>)

\* the source tree with a second qobject.h, in src/tools
AllTree ==
    fs_write(create_dir_all(SourceTree, AbsPath(<<N_w, N_src, N_tools>>))[1],
             AbsPath(<<N_w, N_src, N_tools, N_qobject_h>>), ToolsHeaderText)[1]

AllSourcePaths == {RelPath(<<N_src>>), AbsPath(<<N_w, N_src>>)}
AllDestinations ==
    {AbsPath(<<N_w, N_out, N_fwd>>), RelPath(<<N_out, N_fwd>>), AbsPath(<<N_lnk, N_fwd>>)}

AllInit ==
    /\ disk = AllTree
    /\ \E s \in AllSourcePaths, d \in AllDestinations :
           \/ /\ all_call = <<[impl |-> "write_all_forwarding_headers",
                               source_path |-> s, destination_path |-> d]>>
              /\ all_headers = <<>>
              /\ all_pc = "create_private_dir"
           \/ /\ all_call = <<[impl |-> "write_forwarding_headers",
                               source_path |-> s, destination_path |-> d]>>
              /\ all_headers \in Orderings(glob_files(AllTree, s, <<"h">>))
              /\ all_pc = "lib_create_dir"
    /\ all_idx = 1
    /\ pc = "idle"
    /\ hidx = 1
    /\ oplog = <<>>
    /\ build = [includes |-> <<>>, files |-> <<>>, compiled |-> 0]
    /\ run = 1
    /\ first_disk = None
    /\ tasks = <<>>
    /\ BuilderIdle
    /\ RenderIdle
    /\ ScanIdle
    /\ ForwardIdle

AllNext ==
    /\ \/ LibCreateDir
       \/ LibForwardHeader
       \/ AllCreatePrivateDir
       \/ AllGlob
       \/ AllForwardHeader
       \/ AllForwardClasses
    /\ UNCHANGED <<renderVars, scanVars, forwardVars, builderVars>>
    /\ UNCHANGED <<pc, hidx, oplog, build, rerunVars, tasks>>

SpecAll == AllInit /\ [][AllNext]_vars

(***************************************************************************)
(* Claims about forwarding a list of headers                               *)
(***************************************************************************)
AllIsWriteAll == all_call[1].impl = "write_all_forwarding_headers"
AllIndices == 1..Len(all_headers)

\* the file name of a header has the four characters _p.h somewhere in it
NameContainsPrivateMark(header_path) ==
    LET name == header_path.comps[Len(header_path.comps)]
    IN  \E k \in 1..Len(name) :
            /\ k + 3 <= Len(name)
            /\ name[k] = "_" /\ name[k + 1] = "p" /\ name[k + 2] = "." /\ name[k + 3] = "h"

\* headers that get type-name forwarding headers, and the names they give
AllPublic ==
    { i \in AllIndices : AllIsWriteAll /\ ~NameContainsPrivateMark(all_headers[i]) }
EmittedNames(i) == Range(scan_qt_classes(disk.files[resolve(disk, all_headers[i])[1]]))

\* the directory the filename-based forwarding header of header i goes to
FileGoesTo(i) ==
    IF AllIsWriteAll /\ NameContainsPrivateMark(all_headers[i])
    THEN AllPrivateDestination ELSE AllDestination

\* the one line a forwarding header in directory dir holds when it points at header i
IncludeOf(dir, i) ==
    include_statement(
        diff_paths(canonicalize(disk, absolute_target(all_headers[i]))[1], dir)[1])

\* the greatest index of a set of header indices
Latest(S) == CHOOSE j \in S : \A k \in S : k <= j

FileAt(dir, name) == Append(resolve(disk, dir)[1], name)

\* C19: forwarding a list of headers raises no error when headers share a base
\* name or emit the same type name; afterwards the file of that name holds the
\* include line of the header that comes latest in the list among them.
C19_LastWriteWins ==
    /\ all_pc # "panicked"
    /\ all_pc = "done" =>
           /\ \A i \in AllIndices :
                  LET name == file_name(all_headers[i])[1]
                      same == { j \in AllIndices :
                                    /\ file_name(all_headers[j])[1] = name
                                    /\ FileGoesTo(j) = FileGoesTo(i) }
                  IN  /\ IsFile(disk, FileAt(FileGoesTo(i), name))
                      /\ disk.files[FileAt(FileGoesTo(i), name)] =
                             IncludeOf(FileGoesTo(i), Latest(same))
           /\ \A i \in AllPublic : \A class \in EmittedNames(i) :
                  LET same == { j \in AllPublic : class \in EmittedNames(j) }
                  IN  /\ IsFile(disk, FileAt(AllDestination, class))
                      /\ disk.files[FileAt(AllDestination, class)] =
                             IncludeOf(AllDestination, Latest(same))

\* src/qobject.h came before src/tools/qobject.h: qobject.h and QObject in
\* /w/out/fwd both point at src/tools/qobject.h
C19_Witness ==
    /\ all_pc = "done"
    /\ AllIsWriteAll
    /\ AllDestination = AbsPath(<<N_w, N_out, N_fwd>>)
    /\ \E i, j \in AllIndices :
           /\ i < j
           /\ all_headers[i] = RelPath(<<N_src, N_qobject_h>>)
           /\ all_headers[j] = RelPath(<<N_src, N_tools, N_qobject_h>>)
    /\ disk.files[<<N_w, N_out, N_fwd, N_qobject_h>>] =
           <<"#", "i", "n", "c", "l", "u", "d", "e", " ", "\"", ".", ".", "/", ".", ".", "/", "s", "r", "c", "/", "t", "o", "o", "l", "s", "/", "q", "o", "b", "j", "e", "c", "t", ".", "h", "\"", "\n">>
    /\ disk.files[<<N_w, N_out, N_fwd, TOK_QObject>>] =
           <<"#", "i", "n", "c", "l", "u", "d", "e", " ", "\"", ".", ".", "/", ".", ".", "/", "s", "r", "c", "/", "t", "o", "o", "l", "s", "/", "q", "o", "b", "j", "e", "c", "t", ".", "h", "\"", "\n">>

\* the names of the entries directly in the directory at a location
EntriesIn(loc) ==
    { x[Len(x)] : x \in { l \in disk.dirs \cup DOMAIN disk.files :
                              Len(l) = Len(loc) + 1 /\ SubSeq(l, 1, Len(loc)) = loc } }

\* C20: after write_all_forwarding_headers the entries of the destination are
\* the base names of the public headers, the type names emitted from public
\* headers and the directory private; the entries of private are the base
\* names of the headers whose name contains _p.h.
C20_SplitByVisibility ==
    (all_pc = "done" /\ AllIsWriteAll) =>
        /\ EntriesIn(resolve(disk, AllDestination)[1]) =
               { file_name(all_headers[i])[1] : i \in AllPublic }
                   \cup UNION { EmittedNames(i) : i \in AllPublic }
                   \cup {N_private}
        /\ EntriesIn(resolve(disk, AllPrivateDestination)[1]) =
               { file_name(all_headers[i])[1] : i \in AllIndices \ AllPublic }

\* qobject.h, QObject, QWidget and private in the destination, qobject_p.h in private
C20_Witness ==
    /\ all_pc = "done"
    /\ AllIsWriteAll
    /\ Len(all_headers) = 3
    /\ EntriesIn(resolve(disk, AllDestination)[1]) =
           {N_qobject_h, TOK_QObject, TOK_QWidget, N_private}
    /\ EntriesIn(resolve(disk, AllPrivateDestination)[1]) = {N_qobject_p_h}

(***************************************************************************)
(* SpecFrame: the setters and the file-list calls on one builder           *)
(***************************************************************************)
\* lists handed to global_features, the second after the first or the reverse
FrameFeatureInputs ==
    { << <<NameA, TRUE>> >>, << <<NameB, FALSE>>, <<NameA, TRUE>> >> }
\* the list handed to every other feature setter, and to the define setters
FrameOtherFeatureInputs == { << <<NameB, FALSE>>, <<NameA, TRUE>> >> }
FrameDefineInputs == { << <<<<"K">>, <<"1">>>>, <<<<"K">>, <<"2">>>> >> }

FrameInit ==
    /\ new
    /\ disk = FilesTree
    /\ RenderIdle
    /\ ScanIdle
    /\ ForwardIdle
    /\ CompileIdle

FrameNext ==
    /\ \/ \E l \in FrameFeatureInputs : global_features(l)
       \/ \E l \in FrameOtherFeatureInputs : global_private_features(l)
       \/ \E l \in FrameOtherFeatureInputs : module_features(l)
       \/ \E l \in FrameOtherFeatureInputs : module_private_features(l)
       \/ \E l \in FrameDefineInputs : global_defines(l)
       \/ \E l \in FrameDefineInputs : module_defines(l)
       \/ source_path(RelPath(<<N_src>>))
       \/ glob_headers(RelPath(<<>>))
       \/ glob_sources(RelPath(<<>>))
       \/ source_file(RelPath(<<N_qglobal_cpp>>))
       \/ \E a \in SourcesInputs : sources(a[1], a[2])
    /\ UNCHANGED <<renderVars, scanVars, disk, forwardVars, compileVars>>

SpecFrame == FrameInit /\ [][FrameNext]_vars

(***************************************************************************)
(* Claims about what a call on the builder changes                         *)
(***************************************************************************)
\* list is old with zero or more entries after it
IsExtensionOf(list, old) ==
    /\ Len(list) >= Len(old)
    /\ SubSeq(list, 1, Len(old)) = old

SetterBuckets == BucketNames \ {"module_private_defines"}

====
